---- MODULE Spec2Model ----
(***************************************************************************)
(* Model of src/dask_cugraph.py: the coordinator that runs mg_pagerank     *)
(* over a partitioned dask dataframe.  One coordinating process walks      *)
(* through _get_mg_info (materialize, who_has, rank queries, global        *)
(* reduction, pinned dispatch, barrier) and then through print_data; the   *)
(* scheduler and the workers are the environment: they choose where the    *)
(* partitions live, which rank a worker reports, whether a worker answers  *)
(* and whether a task succeeds.                                            *)
(*                                                                         *)
(* Strings are tuples of one-character strings so that parse_host_port     *)
(* can be computed the way the code computes it.                           *)
(*                                                                         *)
(* Spec and FairSpec are one call of mg_pagerank.  ParseSpec applies       *)
(* parse_host_port to every address of the bounds and ReduceSpec applies   *)
(* the reduction of lines 91-93 to every dataframe of the bounds.          *)
(***************************************************************************)
EXTENDS Integers, Sequences, FiniteSets, TLC

\* ---------------------------------------------------------------- bounds
MaxParts   == 2   \* partitions of the input dataframe
MaxWorkers == 2   \* workers registered with the scheduler
MaxHolders == 2   \* holders who_has reports for one key
MaxVertex  == 1   \* largest vertex id in the dataset
MaxEdges   == 1   \* rows of one partition
MaxAddrLen == 5   \* characters of an address handed to parse_host_port

\* ------------------------------------------------------ worker addresses
\* "t://a:1", "t://b:2" and the IPv6 form "t://[::1]:3" as the scheduler
\* prints them.
WA == <<"t", ":", "/", "/", "a", ":", "1">>
WB == <<"t", ":", "/", "/", "b", ":", "2">>
W6 == <<"t", ":", "/", "/", "[", ":", ":", "1", "]", ":", "3">>
WorkerPool == {WA, WB, W6}

\* ------------------------------------------------------- string helpers
Max(S) == CHOOSE m \in S : \A k \in S : k <= m

OccursAt(s, pat, i) ==
    /\ i >= 1
    /\ i + Len(pat) - 1 <= Len(s)
    /\ \A k \in 1..Len(pat) : s[i + k - 1] = pat[k]

Occurrences(s, pat) == {i \in 1..Len(s) : OccursAt(s, pat, i)}

\* Variant: address.rsplit('://', 1)[0], the text before the separator.
RsplitLastHead(s, pat) ==
    LET i == Max(Occurrences(s, pat))
    IN  SubSeq(s, 1, i - 1)

\* address.rsplit('://', 1)[1]: the text after the LAST occurrence.
RsplitLast(s, pat) ==
    LET i == Max(Occurrences(s, pat))
    IN  SubSeq(s, i + Len(pat), Len(s))

\* Fields of s.split(':'): one more than the number of colons.
RECURSIVE Split(_, _)
Split(s, c) ==
    IF \A i \in 1..Len(s) : s[i] # c
    THEN <<s>>
    ELSE LET i == CHOOSE j \in 1..Len(s) :
                     s[j] = c /\ \A k \in 1..(j - 1) : s[k] # c
         IN  <<SubSeq(s, 1, i - 1)>> \o Split(SubSeq(s, i + 1, Len(s)), c)

DigitChars == <<"0", "1", "2", "3", "4", "5", "6", "7", "8", "9">>
IsDigit(c) == \E i \in 1..10 : DigitChars[i] = c
DigitVal(c) == (CHOOSE i \in 1..10 : DigitChars[i] = c) - 1

RECURSIVE DigitsVal(_)
DigitsVal(s) ==
    IF s = <<>> THEN 0
    ELSE 10 * DigitsVal(SubSeq(s, 1, Len(s) - 1)) + DigitVal(s[Len(s)])

\* Python int(str): an optional sign followed by at least one digit
\* (surrounding blanks and '_' separators are outside the alphabet used).
IntBody(s) == IF s # <<>> /\ s[1] \in {"+", "-"} THEN Tail(s) ELSE s
IntOk(s) == /\ IntBody(s) # <<>>
            /\ \A i \in 1..Len(IntBody(s)) : IsDigit(IntBody(s)[i])
IntVal(s) == IF s[1] = "-" THEN 0 - DigitsVal(IntBody(s)) ELSE DigitsVal(IntBody(s))

\* parse_host_port: ok = FALSE stands for the ValueError raised by the
\* tuple unpacking (not exactly two fields) or by int().
BadAddress == [ok |-> FALSE, host |-> <<>>, port |-> 0]

StripScheme(address) ==
    IF Occurrences(address, <<":", "/", "/">>) # {}
    THEN RsplitLast(address, <<":", "/", "/">>)
    ELSE address

parse_host_port(address) ==
    LET a == StripScheme(address)
        f == Split(a, ":")
    IN  IF Len(f) # 2 THEN BadAddress
        ELSE IF ~IntOk(f[2]) THEN BadAddress
        ELSE [ok |-> TRUE, host |-> f[1], port |-> IntVal(f[2])]

\* ------------------------------------------------------------ collections
Range(f) == {f[i] : i \in DOMAIN f}
Min2(a, b) == IF a <= b THEN a ELSE b
Max2(a, b) == IF a >= b THEN a ELSE b

\* Sequences without repetition of length lo..hi over S.
InjSeqs(S, lo, hi) ==
    UNION {{q \in [1..k -> S] : \A i, j \in 1..k : i # j => q[i] # q[j]}
           : k \in lo..hi}

\* toolz.first(seq): raises StopIteration on an empty sequence.
FirstOk(seq) == seq # <<>>
first(seq) == seq[1]

\* dict(pairs): for a repeated key the last pair wins.
dict(pairs) ==
    [k \in {pairs[j][1] : j \in DOMAIN pairs} |->
        pairs[Max({j \in DOMAIN pairs : pairs[j][1] = k})][2]]

\* ---------------------------------------------------------------- dataset
\* A partition is a sequence of rows <<column 0, column 1>>; the dataframe
\* is the sequence of its partitions and has at least one row.
Rows == (0..MaxVertex) \X (0..MaxVertex)
Partitions == UNION {[1..k -> Rows] : k \in 0..MaxEdges}
Datasets == {d \in UNION {[1..n -> Partitions] : n \in 1..MaxParts} :
                \E p \in DOMAIN d : d[p] # <<>>}

\* ddf[col].max().compute(): every non-empty partition reduces its chunk,
\* the chunk results are reduced again (empty chunks give NaN, skipped).
ChunkMax(part, col) == Max({part[i][col] : i \in DOMAIN part})
\* Variant: only the chunk of the first non-empty partition is used.
SeriesMaxFirstChunk(df, col) ==
    ChunkMax(df[CHOOSE p \in DOMAIN df :
                   df[p] # <<>> /\ \A q \in 1..(p - 1) : df[q] = <<>>], col)

SeriesMax(df, col) ==
    Max({ChunkMax(df[p], col) : p \in {q \in DOMAIN df : df[q] # <<>>}})

NumVertices(df) == Max2(SeriesMax(df, 1), SeriesMax(df, 2)) + 1

\* ------------------------------------------------------------------ state
VARIABLES
    pc,                  \* position of the coordinator
    err,                 \* exception that left mg_pagerank, or "none"
    has_what,            \* scheduler registry: worker addresses, key order
    ddf,                 \* the input dataframe
    who_has,             \* _get_mg_info: partition -> reported holders
    x,                   \* _get_mg_info: list(client.has_what().keys())
    worker_map,          \* _get_mg_info: <<(host, port), part>> pairs
    worker_ranks,        \* _get_mg_info: <<rank, worker>> pairs
    rq,                  \* the get_rank future the coordinator blocks on
    rank_to_worker_dict,
    parts_to_worker_map,
    num_vertices,        \* 0 until line 93 assigns it (it is >= 1 then)
    gpu_futures,         \* _get_mg_info: the _mg_pagerank futures
    z,                   \* mg_pagerank: dd.from_delayed(gpu_futures)
    pr_who_has,          \* print_data: result partition -> holders
    pr_worker_map,       \* print_data: <<(host, port), part>> pairs
    pr_futures,          \* print_data: the _print_data futures
    ret,                 \* value mg_pagerank returned
    address,             \* parse_host_port called on its own: the argument
    scheme,              \* ... the scheme put in front of it
    parsed,              \* ... <<result>> for address, <<>> before the call
    parsed_prefixed,     \* ... <<result>> for scheme + "://" + address
    max_node_src_col,    \* lines 91-93 run on their own: <<value>> of line 91
    max_node_dest_col    \* ... <<value>> of line 92

vars == <<pc, err, has_what, ddf, who_has, x, worker_map, worker_ranks, rq,
          rank_to_worker_dict, parts_to_worker_map, num_vertices,
          gpu_futures, z, pr_who_has, pr_worker_map, pr_futures, ret,
          address, scheme, parsed, parsed_prefixed, max_node_src_col,
          max_node_dest_col>>

parsing == <<address, scheme, parsed, parsed_prefixed>>
reducing == <<max_node_src_col, max_node_dest_col>>
cluster == <<has_what, ddf, parsing, reducing>>
locality == <<who_has, x, worker_map>>
ranking == <<worker_ranks, rq, rank_to_worker_dict, parts_to_worker_map>>
printing == <<pr_who_has, pr_worker_map, pr_futures>>

N == Len(ddf)
Ranks == 0..MaxParts
Registries == InjSeqs(WorkerPool, 1, MaxWorkers)
HolderLists(reg) == InjSeqs(Range(reg), 0, Min2(MaxHolders, Len(reg)))

Init ==
    /\ pc = "mg_pagerank"
    /\ err = "none"
    /\ has_what \in Registries
    /\ ddf \in Datasets
    /\ who_has = <<>>
    /\ x = <<>>
    /\ worker_map = <<>>
    /\ worker_ranks = <<>>
    /\ rq = "idle"
    /\ rank_to_worker_dict = <<>>
    /\ parts_to_worker_map = <<>>
    /\ num_vertices = 0
    /\ gpu_futures = <<>>
    /\ z = <<>>
    /\ pr_who_has = <<>>
    /\ pr_worker_map = <<>>
    /\ pr_futures = <<>>
    /\ ret = <<>>
    /\ address = <<>>
    /\ scheme = <<>>
    /\ parsed = <<>>
    /\ parsed_prefixed = <<>>
    /\ max_node_src_col = <<>>
    /\ max_node_dest_col = <<>>

\* ------------------------------------------------- locality (lines 69-79)
\* The for loop of lines 75-79 over who_has.items(): the partitions whose
\* iteration raises, and the exception the first of them raises.
BadParts(wh) ==
    {p \in DOMAIN wh : ~FirstOk(wh[p]) \/ ~parse_host_port(first(wh[p])).ok}

\* Variant: a partition without holders is skipped instead of raising.
LocalityErrorSkipEmpty(wh) ==
    IF \A p \in DOMAIN wh : ~FirstOk(wh[p]) \/ parse_host_port(first(wh[p])).ok
    THEN "none"
    ELSE "ValueError"

LocalityError(wh) ==
    IF BadParts(wh) = {} THEN "none"
    ELSE LET p == CHOOSE q \in BadParts(wh) : \A r \in BadParts(wh) : q <= r
         IN  IF ~FirstOk(wh[p]) THEN "StopIteration" ELSE "ValueError"

\* worker_map as far as the loop got.
WorkerMap(wh) ==
    LET stop == IF BadParts(wh) = {} THEN Len(wh)
                ELSE (CHOOSE q \in BadParts(wh) :
                         \A r \in BadParts(wh) : q <= r) - 1
    IN  [p \in 1..stop |-> <<parse_host_port(first(wh[p])), p>>]

\* lines 62-67: compute the partitions and wait for them.
Materialize ==
    /\ pc = "mg_pagerank"
    /\ pc' = "who_has"
    /\ UNCHANGED <<err, cluster, locality, ranking, num_vertices,
                   gpu_futures, z, printing, ret>>

\* lines 69-79: who_has, has_what and the worker_map loop.
ResolveLocality ==
    /\ pc = "who_has"
    /\ \E wh \in [1..N -> HolderLists(has_what)] :
          /\ who_has' = wh
          /\ x' = has_what
          /\ worker_map' = WorkerMap(wh)
          /\ err' = LocalityError(wh)
          /\ pc' = IF LocalityError(wh) = "none" THEN "rank" ELSE "failed"
    /\ UNCHANGED <<cluster, ranking, num_vertices, gpu_futures, z,
                   printing, ret>>

\* ------------------------------------------------ rank table (line 83-88)
\* zip(parts, x) has min(len(parts), len(x)) elements.
NumQueries == Min2(N, Len(x))

\* The submissions line 83 has made when k results are in and a query is
\* outstanding or not: submit(...).result() is evaluated per element.
QueriesSubmitted == Len(worker_ranks) + (IF rq = "idle" THEN 0 ELSE 1)

\* line 83, one element: client.submit(get_rank, p, workers=[worker]).
SubmitRankQuery ==
    /\ pc = "rank"
    /\ rq = "idle"
    /\ Len(worker_ranks) < NumQueries
    /\ rq' = "submitted"
    /\ UNCHANGED <<pc, err, cluster, locality, worker_ranks,
                   rank_to_worker_dict, parts_to_worker_map, num_vertices,
                   gpu_futures, z, printing, ret>>

\* .result() returns the rank the worker reports (get_rank, lines 17-21).
RankReply ==
    /\ pc = "rank"
    /\ rq = "submitted"
    /\ \E r \in Ranks :
          worker_ranks' =
              Append(worker_ranks, <<r, x[Len(worker_ranks) + 1]>>)
    /\ rq' = "idle"
    /\ UNCHANGED <<pc, err, cluster, locality, rank_to_worker_dict,
                   parts_to_worker_map, num_vertices, gpu_futures, z,
                   printing, ret>>

\* The queried worker never answers; .result() has no timeout.
RankHang ==
    /\ pc = "rank"
    /\ rq = "submitted"
    /\ rq' = "hung"
    /\ UNCHANGED <<pc, err, cluster, locality, worker_ranks,
                   rank_to_worker_dict, parts_to_worker_map, num_vertices,
                   gpu_futures, z, printing, ret>>

\* lines 86-88: rank_to_worker_dict[i] for i = 0..N-1; KeyError at the
\* first index that is no key.
MissingRanks(d) == {i \in 0..(N - 1) : i \notin DOMAIN d}
\* Variant: partition i goes to the i-th worker of the registry list.
PartsToWorkerMapByPosition(d) ==
    LET stop == IF MissingRanks(d) = {} THEN N
                ELSE CHOOSE i \in MissingRanks(d) :
                        \A j \in MissingRanks(d) : i <= j
    IN  [p \in 1..stop |-> <<p, x[p]>>]

PartsToWorkerMap(d) ==
    LET stop == IF MissingRanks(d) = {} THEN N
                ELSE CHOOSE i \in MissingRanks(d) :
                        \A j \in MissingRanks(d) : i <= j
    IN  [p \in 1..stop |-> <<p, d[p - 1]>>]

\* Variant: an index that is no key of the rank table is skipped.
BuildRankTableSkipMissing ==
    /\ pc = "rank"
    /\ rq = "idle"
    /\ Len(worker_ranks) = NumQueries
    /\ rank_to_worker_dict' = dict(worker_ranks)
    /\ LET d == dict(worker_ranks)
           present == SelectSeq([p \in 1..N |-> p],
                                LAMBDA p : (p - 1) \in DOMAIN d)
       IN  parts_to_worker_map' =
               [k \in DOMAIN present |-> <<present[k], d[present[k] - 1]>>]
    /\ pc' = "agg"
    /\ UNCHANGED <<err, cluster, locality, worker_ranks, rq, num_vertices,
                   gpu_futures, z, printing, ret>>

\* lines 84-88.
BuildRankTable ==
    /\ pc = "rank"
    /\ rq = "idle"
    /\ Len(worker_ranks) = NumQueries
    /\ rank_to_worker_dict' = dict(worker_ranks)
    /\ parts_to_worker_map' = PartsToWorkerMap(dict(worker_ranks))
    /\ IF MissingRanks(dict(worker_ranks)) = {}
       THEN pc' = "agg" /\ err' = err
       ELSE pc' = "failed" /\ err' = "KeyError"
    /\ UNCHANGED <<cluster, locality, worker_ranks, rq, num_vertices,
                   gpu_futures, z, printing, ret>>

\* --------------------------------------- global parameter (lines 91-93)
\* Variant: the reduction runs while the rank queries are still going on.
ComputeNumVerticesEarly ==
    /\ pc = "rank"
    /\ num_vertices = 0
    /\ num_vertices' = NumVertices(ddf)
    /\ UNCHANGED <<pc, err, cluster, locality, ranking, gpu_futures, z,
                   printing, ret>>

ComputeNumVertices ==
    /\ pc = "agg"
    /\ num_vertices' = NumVertices(ddf)
    /\ pc' = "dispatch"
    /\ UNCHANGED <<err, cluster, locality, ranking, gpu_futures, z,
                   printing, ret>>

\* ------------------------------------------ dispatch and barrier (95-97)
\* Variant: only the first task is submitted before the coordinator waits.
SubmittedFirstOnly(ptw, gv) ==
    [i \in DOMAIN ptw \cap {1} |->
        [part |-> ptw[i][1], worker |-> ptw[i][2], global_v |-> gv,
         algo_v |-> 0, status |-> "pending"]]

\* Variant: every task gets a vertex count recomputed from its own partition.
SubmittedPerPartition(ptw, gv) ==
    [i \in DOMAIN ptw |->
        [part |-> ptw[i][1], worker |-> ptw[i][2],
         global_v |-> IF ddf[ptw[i][1]] = <<>> THEN gv
                      ELSE Max2(ChunkMax(ddf[ptw[i][1]], 1),
                                ChunkMax(ddf[ptw[i][1]], 2)) + 1,
         algo_v |-> 0, status |-> "pending"]]

\* line 95: one submit per element of parts_to_worker_map.  algo_v is the
\* third argument _mg_pagerank hands to cugraph.mg_pagerank at line 14
\* (0 until the call is made).
Submitted(ptw, gv) ==
    [i \in DOMAIN ptw |->
        [part |-> ptw[i][1], worker |-> ptw[i][2], global_v |-> gv,
         algo_v |-> 0, status |-> "pending"]]

Dispatch ==
    /\ pc = "dispatch"
    /\ gpu_futures' = Submitted(parts_to_worker_map, num_vertices)
    /\ pc' = "wait"
    /\ UNCHANGED <<err, cluster, locality, ranking, num_vertices, z,
                   printing, ret>>

\* A _mg_pagerank task (lines 8-15) ends on its worker.
TaskFinish ==
    /\ \E i \in DOMAIN gpu_futures :
          /\ gpu_futures[i].status = "pending"
          /\ gpu_futures' = [gpu_futures EXCEPT
                                ![i].status = "finished",
                                ![i].algo_v = gpu_futures[i].global_v]
    /\ UNCHANGED <<pc, err, cluster, locality, ranking, num_vertices, z,
                   printing, ret>>

TaskFail ==
    /\ \E i \in DOMAIN gpu_futures :
          /\ gpu_futures[i].status = "pending"
          /\ gpu_futures' = [gpu_futures EXCEPT ![i].status = "error"]
    /\ UNCHANGED <<pc, err, cluster, locality, ranking, num_vertices, z,
                   printing, ret>>

\* Variant: wait(fs, return_when=FIRST_EXCEPTION).
WaitFirstException(fs) ==
    \/ \A i \in DOMAIN fs : fs[i].status \in {"finished", "error"}
    \/ \E i \in DOMAIN fs : fs[i].status = "error"

\* Variant: wait(fs, return_when=FIRST_COMPLETED).
WaitFirstCompleted(fs) ==
    \E i \in DOMAIN fs : fs[i].status \in {"finished", "error"}

\* distributed.wait(fs): returns when ALL futures are done, whether they
\* finished or erred; it does not raise.
WaitDone(fs) == \A i \in DOMAIN fs : fs[i].status \in {"finished", "error"}

\* lines 96-97.
Barrier ==
    /\ pc = "wait"
    /\ WaitDone(gpu_futures)
    /\ pc' = "returned"
    /\ UNCHANGED <<err, cluster, locality, ranking, num_vertices,
                   gpu_futures, z, printing, ret>>

\* ------------------------------------------- mg_pagerank, lines 38-45
\* line 40: dd.from_delayed(gpu_futures) infers its meta by computing the
\* first future, so the exception of a failed first task is raised here.
ResultKeys(fs) == [i \in DOMAIN fs |-> fs[i].part]

FromDelayed ==
    /\ pc = "returned"
    /\ IF gpu_futures[1].status = "error"
       THEN pc' = "failed" /\ err' = "TaskError" /\ z' = z
       ELSE pc' = "print_data" /\ err' = err /\ z' = ResultKeys(gpu_futures)
    /\ UNCHANGED <<cluster, locality, ranking, num_vertices, gpu_futures,
                   printing, ret>>

\* ------------------------------------------ print_data, lines 100-123
\* lines 102-107: compute the partitions of z and wait for them.
PrintMaterialize ==
    /\ pc = "print_data"
    /\ pc' = "pr_who_has"
    /\ UNCHANGED <<err, cluster, locality, ranking, num_vertices,
                   gpu_futures, z, printing, ret>>

\* who_has for the partitions of z, which print_data has just computed: a
\* partition whose task erred is in no worker's memory; any other is in the
\* memory of the one worker the scheduler ran it on, or lost with it.
ResultHolders ==
    {wh \in [DOMAIN z -> InjSeqs(Range(has_what), 0, 1)] :
        \A i \in DOMAIN z : gpu_futures[i].status = "error" => wh[i] = <<>>}

\* lines 109-117.
PrintResolveLocality ==
    /\ pc = "pr_who_has"
    /\ \E wh \in ResultHolders :
          /\ pr_who_has' = wh
          /\ pr_worker_map' = WorkerMap(wh)
          /\ err' = LocalityError(wh)
          /\ pc' = IF LocalityError(wh) = "none" THEN "pr_dispatch"
                   ELSE "failed"
    /\ UNCHANGED <<cluster, locality, ranking, num_vertices, gpu_futures,
                   z, pr_futures, ret>>

\* line 120: one _print_data submit per element of worker_map.
\* Variant: the print task goes to the worker the compute task was pinned to.
PrintSubmittedComputeWorker(wm) ==
    [i \in DOMAIN wm |->
        [part |-> wm[i][2],
         worker |-> parse_host_port(gpu_futures[wm[i][2]].worker),
         status |-> "pending"]]

PrintSubmitted(wm) ==
    [i \in DOMAIN wm |->
        [part |-> wm[i][2], worker |-> wm[i][1], status |-> "pending"]]

PrintDispatch ==
    /\ pc = "pr_dispatch"
    /\ pr_futures' = PrintSubmitted(pr_worker_map)
    /\ pc' = "pr_wait"
    /\ UNCHANGED <<err, cluster, locality, ranking, num_vertices,
                   gpu_futures, z, pr_who_has, pr_worker_map, ret>>

\* A _print_data task (lines 23-30) ends on its worker.
PrintTaskFinish ==
    /\ \E i \in DOMAIN pr_futures :
          /\ pr_futures[i].status = "pending"
          /\ pr_futures' = [pr_futures EXCEPT ![i].status = "finished"]
    /\ UNCHANGED <<pc, err, cluster, locality, ranking, num_vertices,
                   gpu_futures, z, pr_who_has, pr_worker_map, ret>>

PrintTaskFail ==
    /\ \E i \in DOMAIN pr_futures :
          /\ pr_futures[i].status = "pending"
          /\ pr_futures' = [pr_futures EXCEPT ![i].status = "error"]
    /\ UNCHANGED <<pc, err, cluster, locality, ranking, num_vertices,
                   gpu_futures, z, pr_who_has, pr_worker_map, ret>>

\* lines 121-123.
PrintBarrier ==
    /\ pc = "pr_wait"
    /\ WaitDone(pr_futures)
    /\ pc' = "pr_returned"
    /\ UNCHANGED <<err, cluster, locality, ranking, num_vertices,
                   gpu_futures, z, printing, ret>>

\* lines 43-45: return z.
Return ==
    /\ pc = "pr_returned"
    /\ ret' = z
    /\ pc' = "done"
    /\ UNCHANGED <<err, cluster, locality, ranking, num_vertices,
                   gpu_futures, z, printing>>

\* ---------------------------------------------------------- specification
Next ==
    \/ Materialize
    \/ ResolveLocality
    \/ SubmitRankQuery
    \/ RankReply
    \/ RankHang
    \/ BuildRankTable
    \/ ComputeNumVertices
    \/ Dispatch
    \/ TaskFinish
    \/ TaskFail
    \/ Barrier
    \/ FromDelayed
    \/ PrintMaterialize
    \/ PrintResolveLocality
    \/ PrintDispatch
    \/ PrintTaskFinish
    \/ PrintTaskFail
    \/ PrintBarrier
    \/ Return

Spec == Init /\ [][Next]_vars

\* The coordinator, the scheduler and the workers keep running: a step
\* that stays possible is eventually taken.
FairSpec == Spec /\ WF_vars(Next)

\* ------------------------------------- parse_host_port on its own (53-58)
\* The address parser as a pure function of its argument: every string of
\* up to MaxAddrLen characters over a letter, a digit, ':' and '/', parsed
\* as it is and behind a scheme.
AddrChars == {"a", "1", ":", "/"}
Addresses == UNION {[1..k -> AddrChars] : k \in 0..MaxAddrLen}
Schemes == {<<"t">>, <<"a", "1">>}

ParseInit ==
    /\ pc = "parse_host_port"
    /\ err = "none"
    /\ has_what = <<WA>>
    /\ ddf = <<<<<<0, 0>>>>>>
    /\ who_has = <<>>
    /\ x = <<>>
    /\ worker_map = <<>>
    /\ worker_ranks = <<>>
    /\ rq = "idle"
    /\ rank_to_worker_dict = <<>>
    /\ parts_to_worker_map = <<>>
    /\ num_vertices = 0
    /\ gpu_futures = <<>>
    /\ z = <<>>
    /\ pr_who_has = <<>>
    /\ pr_worker_map = <<>>
    /\ pr_futures = <<>>
    /\ ret = <<>>
    /\ address \in Addresses
    /\ scheme \in Schemes
    /\ parsed = <<>>
    /\ parsed_prefixed = <<>>
    /\ max_node_src_col = <<>>
    /\ max_node_dest_col = <<>>

main == <<pc, err, has_what, ddf, locality, ranking, num_vertices,
          gpu_futures, z, printing, ret>>

\* parse_host_port(address)
ParseAddress ==
    /\ pc = "parse_host_port"
    /\ parsed = <<>>
    /\ parsed' = <<parse_host_port(address)>>
    /\ UNCHANGED <<main, address, scheme, parsed_prefixed, reducing>>

\* parse_host_port(scheme + "://" + address)
ParsePrefixed ==
    /\ pc = "parse_host_port"
    /\ parsed_prefixed = <<>>
    /\ parsed_prefixed' =
          <<parse_host_port(scheme \o <<":", "/", "/">> \o address)>>
    /\ UNCHANGED <<main, address, scheme, parsed, reducing>>

ParseNext == ParseAddress \/ ParsePrefixed

ParseSpec == ParseInit /\ [][ParseNext]_vars

\* ------------------------------- the reduction on its own (lines 91-93)
\* The vertex count as a pure function of the dataframe: every dataframe
\* of the bounds, reduced once.
ReduceInit ==
    /\ pc = "num_vertices"
    /\ err = "none"
    /\ has_what = <<WA>>
    /\ ddf \in Datasets
    /\ who_has = <<>>
    /\ x = <<>>
    /\ worker_map = <<>>
    /\ worker_ranks = <<>>
    /\ rq = "idle"
    /\ rank_to_worker_dict = <<>>
    /\ parts_to_worker_map = <<>>
    /\ num_vertices = 0
    /\ gpu_futures = <<>>
    /\ z = <<>>
    /\ pr_who_has = <<>>
    /\ pr_worker_map = <<>>
    /\ pr_futures = <<>>
    /\ ret = <<>>
    /\ address = <<>>
    /\ scheme = <<>>
    /\ parsed = <<>>
    /\ parsed_prefixed = <<>>
    /\ max_node_src_col = <<>>
    /\ max_node_dest_col = <<>>

\* line 91: ddf[ddf.columns[0]].max().compute()
ReduceSrc ==
    /\ pc = "num_vertices"
    /\ max_node_src_col = <<>>
    /\ max_node_src_col' = <<SeriesMax(ddf, 1)>>
    /\ UNCHANGED <<main, parsing, max_node_dest_col>>

\* line 92: ddf[ddf.columns[1]].max().compute()
ReduceDest ==
    /\ pc = "num_vertices"
    /\ max_node_src_col # <<>>
    /\ max_node_dest_col = <<>>
    /\ max_node_dest_col' = <<SeriesMax(ddf, 2)>>
    /\ UNCHANGED <<main, parsing, max_node_src_col>>

\* line 93: max(max_node_src_col, max_node_dest_col) + 1
ReduceCombine ==
    /\ pc = "num_vertices"
    /\ max_node_dest_col # <<>>
    /\ num_vertices = 0
    /\ num_vertices' = Max2(max_node_src_col[1], max_node_dest_col[1]) + 1
    /\ UNCHANGED <<pc, err, cluster, locality, ranking, gpu_futures, z,
                   printing, ret>>

ReduceNext == ReduceSrc \/ ReduceDest \/ ReduceCombine

ReduceSpec == ReduceInit /\ [][ReduceNext]_vars

TypeOK ==
    /\ pc \in {"mg_pagerank", "who_has", "rank", "agg", "dispatch", "wait",
               "returned", "print_data", "pr_who_has", "pr_dispatch",
               "pr_wait", "pr_returned", "done", "failed",
               "parse_host_port", "num_vertices"}
    /\ err \in {"none", "StopIteration", "ValueError", "KeyError",
                "TaskError"}
    /\ rq \in {"idle", "submitted", "hung"}
    /\ num_vertices \in Nat
    /\ (pc = "failed") = (err # "none")

\* ------------------------------------------------------------- properties
\* _get_mg_info has returned its handles to mg_pagerank (line 97).
GetMgInfoReturned ==
    pc \in {"returned", "print_data", "pr_who_has", "pr_dispatch",
            "pr_wait", "pr_returned", "done"}

\* Lines 84-88 have run: zip(parts, x) is never empty, so the table has a key.
RankTableBuilt == rank_to_worker_dict # <<>>

\* Workers that hold at least one partition of the round.
DataHolders == UNION {Range(who_has[p]) : p \in DOMAIN who_has}

\* The queried workers answered like the members of one MPI world made of
\* the registered workers: distinct ranks below the registry size.
RanksWellFormed ==
    /\ \A j \in DOMAIN worker_ranks : worker_ranks[j][1] < Len(x)
    /\ \A j, k \in DOMAIN worker_ranks :
          worker_ranks[j][1] = worker_ranks[k][1] => j = k

\* C1: every submitted _mg_pagerank task is pinned to the worker the
\* locality map records for its partition, i.e. the first holder who_has
\* reported for that partition (addresses compared as (host, port)).
Affinity ==
    \A i \in DOMAIN gpu_futures :
        parse_host_port(gpu_futures[i].worker) =
            parse_host_port(first(who_has[gpu_futures[i].part]))

\* C2: once _get_mg_info has ended a round in which every partition has a
\* holder (with an address the locality loop accepted, and with workers
\* that report well-formed ranks), it has returned exactly N handles,
\* exactly one _mg_pagerank task per partition.
ExactlyOnceDispatch ==
    (/\ who_has # <<>>
     /\ \A p \in DOMAIN who_has :
           who_has[p] # <<>> /\ parse_host_port(first(who_has[p])).ok
     /\ RanksWellFormed
     /\ (GetMgInfoReturned \/ pc = "failed"))
    => /\ Len(gpu_futures) = N
       /\ \A p \in 1..N :
             Cardinality({i \in DOMAIN gpu_futures :
                             gpu_futures[i].part = p}) = 1

\* C3: after rank resolution (the workers reporting well-formed ranks)
\* rank_to_worker_dict is a bijection between the K workers that hold at
\* least one partition and the ranks 0..K-1.
RankBijection ==
    (RankTableBuilt /\ RanksWellFormed) =>
        /\ DOMAIN rank_to_worker_dict = 0..(Cardinality(DataHolders) - 1)
        /\ Range(rank_to_worker_dict) = DataHolders
        /\ \A r1, r2 \in DOMAIN rank_to_worker_dict :
              rank_to_worker_dict[r1] = rank_to_worker_dict[r2] => r1 = r2

\* C4: when who_has reports no holder for some partition the round has
\* failed with an exception, no rank was queried, num_vertices was not
\* computed and no _mg_pagerank task was submitted.
NoHolderAborts ==
    (who_has # <<>> /\ \E p \in DOMAIN who_has : who_has[p] = <<>>)
    => /\ pc = "failed"
       /\ err # "none"
       /\ rq = "idle"
       /\ worker_ranks = <<>>
       /\ rank_to_worker_dict = <<>>
       /\ num_vertices = 0
       /\ gpu_futures = <<>>

\* C4 witness: a two-partition round where one partition has a holder and
\* the other has none ended with the exception of first().
NoHolderWitness ==
    /\ N = 2
    /\ who_has # <<>>
    /\ \E p, q \in DOMAIN who_has : who_has[p] = <<>> /\ who_has[q] # <<>>
    /\ pc = "failed"
    /\ err = "StopIteration"

\* C5: _get_mg_info and mg_pagerank do not return normally from a round in
\* which a _mg_pagerank task failed.
BarrierFailureReported ==
    (pc \in {"returned", "done"})
    => \A i \in DOMAIN gpu_futures : gpu_futures[i].status # "error"

\* C6: a rank query that is never answered leads to the round ending in a
\* failed state.
RankTimeout == (rq = "hung") ~> (pc = "failed")

\* C7: when _get_mg_info returns its handles every submitted _mg_pagerank
\* task has resolved to success or failure.
BarrierComplete ==
    GetMgInfoReturned =>
        /\ gpu_futures # <<>>
        /\ \A i \in DOMAIN gpu_futures : gpu_futures[i].status # "pending"

\* C7 witness: _get_mg_info returned two handles, one of a task that
\* finished and one of a task that failed.
BarrierCompleteWitness ==
    /\ pc = "returned"
    /\ Len(gpu_futures) = 2
    /\ gpu_futures[1].status = "error"
    /\ gpu_futures[2].status = "finished"

\* C8: whenever the coordinator blocks on the result of a get_rank query,
\* all get_rank queries of the round have been submitted.
RankQueriesConcurrent ==
    (pc = "rank" /\ rq # "idle") => QueriesSubmitted = NumQueries

\* C9: when every _mg_pagerank task succeeded and z was built, mg_pagerank
\* ends by returning z, whatever happens inside print_data.
DebugPathNotRequired ==
    (/\ z # <<>>
     /\ \A i \in DOMAIN gpu_futures : gpu_futures[i].status = "finished"
     /\ pc \in {"done", "failed"})
    => (pc = "done" /\ ret = z)

\* The rows of the whole dataframe, whatever its partitioning.
AllRows == UNION {Range(ddf[p]) : p \in DOMAIN ddf}

\* C10: num_vertices is max(max of column 0, max of column 1) + 1 over the
\* rows of the whole dataset, hence the same for every partitioning of them.
NumVerticesValue ==
    (num_vertices # 0) =>
        /\ \A row \in AllRows : row[1] < num_vertices /\ row[2] < num_vertices
        /\ \E row \in AllRows : num_vertices - 1 \in {row[1], row[2]}

\* C10 witness: num_vertices was computed for a dataframe of two non-empty
\* partitions whose largest id is in column 1 of the second partition only.
NumVerticesWitness ==
    /\ num_vertices = 2
    /\ N = 2
    /\ ddf[1] = <<<<0, 0>>>>
    /\ ddf[2] = <<<<0, 1>>>>

\* C11: num_vertices is assigned once and never changes afterwards, it is
\* assigned before any _mg_pagerank task exists, every task of the round
\* carries that value as global_v and a task that ran handed the same
\* value to the partition-local algorithm.
GlobalParameterConsistency ==
    [][/\ (num_vertices # 0 => num_vertices' = num_vertices)
       /\ \A i \in DOMAIN gpu_futures' :
             /\ num_vertices' # 0
             /\ gpu_futures'[i].global_v = num_vertices'
             /\ (gpu_futures'[i].status = "finished"
                    => gpu_futures'[i].algo_v = num_vertices')]_vars

\* C11 witness: two tasks ran on partitions with different local maxima
\* and both handed the global count 2 to the algorithm.
GlobalParameterWitness ==
    /\ Len(gpu_futures) = 2
    /\ ddf[1] = <<<<0, 0>>>>
    /\ ddf[2] = <<<<1, 0>>>>
    /\ \A i \in {1, 2} :
          gpu_futures[i].status = "finished" /\ gpu_futures[i].algo_v = 2

\* C12: in a round where every partition reports at least one holder,
\* worker_map has exactly N entries, one per partition, and each entry's
\* worker is the first holder reported for that partition, normalized to a
\* (host, port) pair that some worker of the scheduler's registry has.
LocalityMapShape ==
    (who_has # <<>> /\ \A p \in DOMAIN who_has : who_has[p] # <<>>)
    => /\ Len(worker_map) = N
       /\ \A p \in 1..N :
             /\ worker_map[p][2] = p
             /\ worker_map[p][1].ok
             /\ worker_map[p][1] = parse_host_port(first(who_has[p]))
             /\ \E w \in Range(has_what) :
                   parse_host_port(w) = worker_map[p][1]

\* C13: once a _mg_pagerank task has failed, no sibling is taken away from
\* the round or cancelled (a pending sibling stays pending or runs to
\* success or failure), and the coordinator leaves the barrier only when
\* every task of the round is done.
SiblingsNotCancelled ==
    [][(\E i \in DOMAIN gpu_futures : gpu_futures[i].status = "error")
       => /\ DOMAIN gpu_futures' = DOMAIN gpu_futures
          /\ \A i \in DOMAIN gpu_futures :
                /\ gpu_futures'[i].status \in {"pending", "finished", "error"}
                /\ gpu_futures[i].status # "pending"
                      => gpu_futures'[i].status = gpu_futures[i].status
          /\ (pc = "wait" /\ pc' # "wait")
                => \A i \in DOMAIN gpu_futures :
                      gpu_futures[i].status # "pending"]_vars

\* C13 witness: the coordinator is still at the barrier after the first
\* task failed and its sibling is in flight.
SiblingInFlightWitness ==
    /\ pc = "wait"
    /\ Len(gpu_futures) = 2
    /\ gpu_futures[1].status = "error"
    /\ gpu_futures[2].status = "pending"

\* Positions of the colons of a string, and "all characters are digits".
Colons(a) == {i \in 1..Len(a) : a[i] = ":"}
AllDigits(a) == a # <<>> /\ \A i \in 1..Len(a) : IsDigit(a[i])

\* host:port with a colon-free host and a numeric port.
HostPortForm(a) ==
    /\ Cardinality(Colons(a)) = 1
    /\ AllDigits(SubSeq(a, Max(Colons(a)) + 1, Len(a)))

\* C14: for every s of the form host:port (colon-free host, numeric port)
\* parse_host_port gives the same (host, port) for scheme://s and for s.
PrefixInvariance ==
    (parsed # <<>> /\ parsed_prefixed # <<>> /\ HostPortForm(address))
    => /\ parsed[1].ok
       /\ parsed_prefixed[1] = parsed[1]

\* C14 witness: "a:11" and scheme "://" "a:11" both parsed to ("a", 11).
PrefixInvarianceWitness ==
    /\ address = <<"a", ":", "1", "1">>
    /\ parsed = <<[ok |-> TRUE, host |-> <<"a">>, port |-> 11]>>
    /\ parsed_prefixed = parsed

\* The part of an address after its scheme separator (the whole address
\* when it has none).
Separators(a) ==
    {i \in 1..(Len(a) - 2) : <<a[i], a[i + 1], a[i + 2]>> = <<":", "/", "/">>}
AfterSeparator(a) ==
    IF Separators(a) = {} THEN a
    ELSE SubSeq(a, Max(Separators(a)) + 3, Len(a))

\* C15: when the part after the scheme separator has one or more colons
\* and the text after its last colon is a decimal number, parse_host_port
\* succeeds with host = everything before that last colon and port = that
\* number.
SplitOnLastColon ==
    \A r \in {<<address, parsed>>,
              <<scheme \o <<":", "/", "/">> \o address, parsed_prefixed>>} :
        LET a == AfterSeparator(r[1])
        IN  (/\ r[2] # <<>>
             /\ Colons(a) # {}
             /\ AllDigits(SubSeq(a, Max(Colons(a)) + 1, Len(a))))
            => /\ r[2][1].ok
               /\ r[2][1].host = SubSeq(a, 1, Max(Colons(a)) - 1)
               /\ r[2][1].port =
                     DigitsVal(SubSeq(a, Max(Colons(a)) + 1, Len(a)))

\* C16: when the coordinator waits on _mg_pagerank tasks, all N tasks of
\* the round have been submitted (one per entry of parts_to_worker_map):
\* submission is never interleaved with waiting.
DispatchDoesNotBlock ==
    (pc = "wait")
    => /\ Len(gpu_futures) = N
       /\ Len(gpu_futures) = Len(parts_to_worker_map)

\* C16 witness: the second task has finished while the first, submitted
\* before it, is still pending and the coordinator waits on both.
SlowTaskWitness ==
    /\ pc = "wait"
    /\ Len(gpu_futures) = 2
    /\ gpu_futures[1].status = "pending"
    /\ gpu_futures[2].status = "finished"

\* C17: the task at position i (partition i of the list, counted from 0) is
\* pinned to the worker of the registry list x whose get_rank query of
\* this round returned i.
PositionalRankJoin ==
    \A i \in DOMAIN gpu_futures :
        /\ gpu_futures[i].part = i
        /\ gpu_futures[i].worker \in Range(has_what)
        /\ \E j \in DOMAIN worker_ranks :
              /\ worker_ranks[j] = <<i - 1, gpu_futures[i].worker>>
              /\ x[j] = gpu_futures[i].worker

\* C17 witness: two tasks dispatched where the first registry worker
\* reported rank 1 and the first partition is pinned to a worker that does
\* not hold it.
PositionalJoinWitness ==
    /\ Len(gpu_futures) = 2
    /\ worker_ranks[1][1] = 1
    /\ gpu_futures[1].worker \notin Range(who_has[1])

\* C18: when the rank table lacks an index of 0..N-1 the round has failed
\* with KeyError and no _mg_pagerank task exists; the number of submitted
\* tasks is always 0 or N.
AllOrNothingDispatch ==
    /\ Len(gpu_futures) \in {0, N}
    /\ (RankTableBuilt
        /\ \E i \in 0..(N - 1) : i \notin DOMAIN rank_to_worker_dict)
       => (pc = "failed" /\ err = "KeyError" /\ gpu_futures = <<>>)

\* C18 witness: two partitions, two queried workers that both reported
\* the same rank, and the round ended with KeyError.
IncompleteRankWitness ==
    /\ N = 2
    /\ Len(worker_ranks) = 2
    /\ worker_ranks[1][1] = worker_ranks[2][1]
    /\ err = "KeyError"

\* C19: who_has is queried only after the partitions were materialized,
\* num_vertices exists only after every rank query has returned, a
\* _mg_pagerank task exists only after num_vertices was computed, and
\* _get_mg_info has returned only after every task is done.
PhaseOrdering ==
    /\ who_has # <<>> => pc # "mg_pagerank"
    /\ num_vertices # 0
          => (rq = "idle" /\ Len(worker_ranks) = NumQueries /\ RankTableBuilt)
    /\ gpu_futures # <<>> => num_vertices # 0
    /\ GetMgInfoReturned
          => /\ gpu_futures # <<>>
             /\ \A i \in DOMAIN gpu_futures :
                   gpu_futures[i].status \in {"finished", "error"}

\* C19 witness: a round of two partitions went through every phase of
\* _get_mg_info and of print_data.
PhaseOrderingWitness ==
    /\ pc = "pr_returned"
    /\ Len(gpu_futures) = 2
    /\ Len(worker_ranks) = 2
    /\ num_vertices # 0

\* C20: when print_data has submitted, there is exactly one _print_data
\* task per result partition, pinned to the (host, port) of the first
\* holder who_has reported for that partition in print_data; print_data
\* has returned only when all of these tasks are done.
ResultCollector ==
    /\ pr_futures # <<>>
          => /\ Len(pr_futures) = Len(z)
             /\ \A p \in DOMAIN z :
                   /\ Cardinality({i \in DOMAIN pr_futures :
                                      pr_futures[i].part = p}) = 1
                   /\ \A i \in DOMAIN pr_futures :
                         pr_futures[i].part = p
                            => pr_futures[i].worker =
                                  parse_host_port(first(pr_who_has[p]))
    /\ pc \in {"pr_returned", "done"}
          => /\ pr_futures # <<>>
             /\ \A i \in DOMAIN pr_futures : pr_futures[i].status # "pending"

\* C20 witness: print_data returned after two _print_data tasks, the first
\* pinned to a holder other than the worker that computed the partition.
ResultCollectorWitness ==
    /\ pc = "pr_returned"
    /\ Len(pr_futures) = 2
    /\ first(pr_who_has[1]) # gpu_futures[1].worker
    /\ pr_futures[1].status = "finished"
    /\ pr_futures[2].status = "error"
====
